---- MODULE Spec2Model ----
(***************************************************************************)
(* Model of the two command-line drivers of the repository:                *)
(*   - the manifest driver    (src/GithubManagement.ts)                    *)
(*   - the interactive driver (src/unnamed/part_000)                       *)
(* Strings are sequences of one-character strings so that toLowerCase is   *)
(* a real conversion.  Every await of the code is a pair of steps: the     *)
(* call is issued (it becomes outstanding) and later returns.              *)
(***************************************************************************)
EXTENDS Integers, Sequences, FiniteSets, TLC

\* Longest collaborators array a manifest holds.
MaxCollabs == 2
\* Most non-empty lines typed into one collaborator-entry loop.
MaxEntries == 2

(***************************************************************************)
(* Strings                                                                 *)
(***************************************************************************)
CaseMap ==
    [A |-> "a", B |-> "b", C |-> "c", D |-> "d", E |-> "e", F |-> "f",
     G |-> "g", H |-> "h", I |-> "i", J |-> "j", K |-> "k", L |-> "l",
     M |-> "m", N |-> "n", O |-> "o", P |-> "p", Q |-> "q", R |-> "r",
     S |-> "s", T |-> "t", U |-> "u", V |-> "v", W |-> "w", X |-> "x",
     Y |-> "y", Z |-> "z"]

toLowerCaseChar(c) == IF c \in DOMAIN CaseMap THEN CaseMap[c] ELSE c

\* String.prototype.toLowerCase
toLowerCase(s) == [k \in 1..Len(s) |-> toLowerCaseChar(s[k])]

\* Mutant: the names are compared as spelled.
mapToLowerCase_AsSpelled(arr) == arr

\* Array.prototype.map((x) => x.toLowerCase())
mapToLowerCase(arr) == [k \in 1..Len(arr) |-> toLowerCase(arr[k])]

\* Array.prototype.includes
includes(arr, x) == \E k \in 1..Len(arr) : arr[k] = x

ToSet(arr) == {arr[k] : k \in 1..Len(arr)}

BSeq(S, n) == UNION {[1..k -> S] : k \in 0..n}

Perms(S) == {p \in [1..Cardinality(S) -> S] :
                \A a, b \in 1..Cardinality(S) : a # b => p[a] # p[b]}

Last(s) == s[Len(s)]

(***************************************************************************)
(* The literals the drivers compare their input with                       *)
(***************************************************************************)
STR_create == <<"c", "r", "e", "a", "t", "e">>
STR_edit   == <<"e", "d", "i", "t">>
STR_add    == <<"a", "d", "d">>
STR_remove == <<"r", "e", "m", "o", "v", "e">>
STR_delete == <<"d", "e", "l", "e", "t", "e">>
STR_yes    == <<"y", "e", "s">>
EMPTY      == << >>

(***************************************************************************)
(* The repository host (external): accounts as the host spells them, and   *)
(* the names a manifest or a user may spell.                               *)
(***************************************************************************)
OwnerLogin == <<"O", "w">>
Accounts   == {OwnerLogin, <<"A", "l">>, <<"b", "o">>}
TypedNames == {<<"a", "l">>, <<"A", "L">>, <<"B", "o">>, <<"o", "w">>}
RepoName   == <<"t", "1">>

\* The account a spelled name resolves to on the host (names are case-insensitive there).
Canon(u) == CHOOSE acc \in Accounts : toLowerCase(acc) = toLowerCase(u)

OK         == [ok |-> TRUE, status |-> 200]
Fail(st)   == [ok |-> FALSE, status |-> st]
\* 0 stands for an error that carries no status (a network error).
ErrorStatuses == {0, 401, 403, 404, 500}

Call(op, arg) == [op |-> op, arg |-> arg]

\* The host's state after a successful call.
HostEffect(h, c) ==
    CASE c.op = "createForAuthenticatedUser" -> [exists |-> TRUE, collabs |-> {OwnerLogin}]
      [] c.op = "delete"                     -> [exists |-> FALSE, collabs |-> {}]
      [] c.op = "addCollaborator"            -> [h EXCEPT !.collabs = @ \cup {Canon(c.arg)}]
      [] c.op = "removeCollaborator"         -> [h EXCEPT !.collabs = @ \ {Canon(c.arg)}]
      [] OTHER                               -> h

\* Whether the host can answer the call with success.
CanSucceed(h, c) ==
    CASE c.op = "getAuthenticated"           -> TRUE
      [] c.op = "createForAuthenticatedUser" -> ~h.exists
      [] OTHER                               -> h.exists

\* The answers the host can give to a call: success when possible, any failure always
\* (404 on the existence check only when the repository is absent).
Responses(h, c) ==
    (IF CanSucceed(h, c) THEN {OK} ELSE {})
    \cup (IF c.op = "get"
            THEN {Fail(st) : st \in (IF h.exists THEN ErrorStatuses \ {404} ELSE ErrorStatuses)}
            ELSE IF c.op = "getAuthenticated" THEN {Fail(401)}
            ELSE {Fail(500)})

AllResponses == {OK} \cup {Fail(st) : st \in ErrorStatuses}

(***************************************************************************)
(* State                                                                   *)
(***************************************************************************)
VARIABLES
    driver,                \* "manifest" or "interactive": which program runs
    pc,                    \* position of main
    file,                  \* the manifest file on disk
    host,                  \* the repository on the host
    username,              \* const username
    teamName,              \* const { teamName, collaborators } = teamData
    collaborators,
    currentCollaborators,  \* const currentCollaborators
    toAdd,                 \* const collaboratorsToAdd
    toRemove,              \* const collaboratorsToRemove
    idx,                   \* position of the running for...of loop
    repoName,              \* const repoName (interactive)
    inputs,                \* history: the lines typed at the prompts
    calls,                 \* history: the host calls issued, in order
    results,               \* history: the host's answers, in order
    inflight,              \* the calls issued and not yet returned (indices of calls)
    out,                   \* console output
    prev                   \* "none" in a first run; in a rerun, how the first run went:
                           \* "failed", "converged" (it changed the host), "in_sync"

vars == <<driver, pc, file, host, username, teamName, collaborators,
          currentCollaborators, toAdd, toRemove, idx, repoName, inputs,
          calls, results, inflight, out, prev>>

Terminal == {"done", "returned", "crashed"}

Files ==
    {[readable |-> FALSE, hasTeamName |-> FALSE, teamName |-> EMPTY,
      collabIsList |-> FALSE, collaborators |-> EMPTY]}
    \cup {[readable |-> TRUE, hasTeamName |-> FALSE, teamName |-> EMPTY,
           collabIsList |-> TRUE, collaborators |-> cs] : cs \in BSeq(TypedNames, 1)}
    \cup {[readable |-> TRUE, hasTeamName |-> TRUE, teamName |-> tn,
           collabIsList |-> FALSE, collaborators |-> EMPTY] : tn \in {EMPTY, RepoName}}
    \cup {[readable |-> TRUE, hasTeamName |-> TRUE, teamName |-> tn,
           collabIsList |-> TRUE, collaborators |-> cs] :
             tn \in {EMPTY, RepoName}, cs \in BSeq(TypedNames, MaxCollabs)}

NoFile == [readable |-> FALSE, hasTeamName |-> FALSE, teamName |-> EMPTY,
           collabIsList |-> FALSE, collaborators |-> EMPTY]

Hosts ==
    {[exists |-> FALSE, collabs |-> {}]}
    \cup {[exists |-> TRUE, collabs |-> cs] : cs \in SUBSET Accounts}

Init ==
    /\ driver \in {"manifest", "interactive"}
    /\ pc = "start"
    /\ file \in (IF driver = "manifest" THEN Files ELSE {NoFile})
    /\ host \in Hosts
    /\ username = EMPTY
    /\ teamName = EMPTY
    /\ collaborators = << >>
    /\ currentCollaborators = << >>
    /\ toAdd = << >>
    /\ toRemove = << >>
    /\ idx = 1
    /\ repoName = EMPTY
    /\ inputs = << >>
    /\ calls = << >>
    /\ results = << >>
    /\ inflight = {}
    /\ out = << >>
    /\ prev = "none"

(***************************************************************************)
(* await: a call is issued, and later returns                              *)
(***************************************************************************)
Issue(c) ==
    /\ calls' = Append(calls, c)
    /\ inflight' = inflight \cup {Len(calls) + 1}

\* The outstanding call returns with answer r; a success takes effect on the host.
Return(r) ==
    /\ Len(calls) \in inflight
    /\ r \in Responses(host, Last(calls))
    /\ results' = Append(results, r)
    /\ inflight' = inflight \ {Len(calls)}
    /\ host' = IF r.ok THEN HostEffect(host, Last(calls)) ELSE host
    /\ calls' = calls

Log(msgs) == out' = out \o msgs

(***************************************************************************)
(* The manifest driver, src/GithubManagement.ts                            *)
(***************************************************************************)
\* Mutant: only the team name is validated.
InvalidTeamData_NameOnly(td) ==
    \/ ~td.hasTeamName
    \/ td.teamName = EMPTY

\* if (!teamName || !Array.isArray(collaborators))
InvalidTeamData(td) ==
    \/ ~td.hasTeamName
    \/ td.teamName = EMPTY
    \/ ~td.collabIsList

\* Mutant: every failure of the existence check means "absent".
repositoryExists_AnyErrorIsAbsent(r) == IF r.ok THEN "true" ELSE "false"

\* catch (error: any) { if (error.status === 404) return false; else throw error; }
repositoryExists(r) ==
    IF r.ok THEN "true"
    ELSE IF r.status = 404 THEN "false"
    ELSE "throw"

\* collaboratorsToAdd, given the two normalized arrays
CollaboratorsToAdd(normalizedCollaborators, normalizedCurrentCollaborators) ==
    LET keep(collab) == ~includes(normalizedCurrentCollaborators, collab)
    IN  SelectSeq(normalizedCollaborators, keep)

\* Mutant: the owner is not kept out of the removals.
CollaboratorsToRemove_OwnerToo(normalizedCollaborators, normalizedCurrentCollaborators, normalizedUsername) ==
    LET keep(collab) == ~includes(normalizedCollaborators, collab)
    IN  SelectSeq(normalizedCurrentCollaborators, keep)

\* collaboratorsToRemove, given the two normalized arrays and the normalized owner
CollaboratorsToRemove(normalizedCollaborators, normalizedCurrentCollaborators, normalizedUsername) ==
    LET keep(collab) == /\ ~includes(normalizedCollaborators, collab)
                        /\ collab # normalizedUsername
    IN  SelectSeq(normalizedCurrentCollaborators, keep)

M_CallAuth ==
    /\ driver = "manifest" /\ pc = "start"
    /\ Issue(Call("getAuthenticated", EMPTY))
    /\ pc' = "m_auth_wait"
    /\ UNCHANGED <<driver, file, host, username, teamName, collaborators,
                   currentCollaborators, toAdd, toRemove, idx, repoName, inputs,
                   results, out, prev>>

M_AuthReturn(r) ==
    /\ pc = "m_auth_wait"
    /\ Return(r)
    /\ IF r.ok
         THEN /\ username' = OwnerLogin
              /\ Log(<<"Authenticated as">>)
              /\ pc' = "m_prompt"
         ELSE /\ Log(<<"Error fetching authenticated username">>)
              /\ pc' = "crashed"
              /\ UNCHANGED username
    /\ UNCHANGED <<driver, file, teamName, collaborators, currentCollaborators,
                   toAdd, toRemove, idx, repoName, inputs, prev>>

\* The file path is typed, the file read, parsed and validated.
M_ReadManifest ==
    /\ pc = "m_prompt"
    /\ IF ~file.readable
         THEN /\ Log(<<"Error reading or parsing JSON file">>)
              /\ pc' = "returned"
              /\ UNCHANGED <<teamName, collaborators>>
         ELSE IF InvalidTeamData(file)
         THEN /\ Log(<<"Invalid JSON format">>)
              /\ pc' = "returned"
              /\ teamName' = file.teamName
              /\ collaborators' = file.collaborators
         ELSE /\ teamName' = file.teamName
              /\ collaborators' = file.collaborators
              /\ pc' = "m_exists_call"
              /\ UNCHANGED out
    /\ UNCHANGED <<driver, file, host, username, currentCollaborators, toAdd,
                   toRemove, idx, repoName, inputs, calls, results, inflight, prev>>

M_CallExists ==
    /\ pc = "m_exists_call"
    /\ Issue(Call("get", teamName))
    /\ pc' = "m_exists_wait"
    /\ UNCHANGED <<driver, file, host, username, teamName, collaborators,
                   currentCollaborators, toAdd, toRemove, idx, repoName, inputs,
                   results, out, prev>>

M_ExistsReturn(r) ==
    /\ pc = "m_exists_wait"
    /\ Return(r)
    /\ CASE repositoryExists(r) = "true" ->
              /\ Log(<<"Repository exists. Updating collaborators...">>)
              /\ pc' = "m_list_call"
         [] repositoryExists(r) = "false" ->
              /\ Log(<<"Repository does not exist. Creating repository and adding collaborators...">>)
              /\ pc' = "m_create_call"
         [] OTHER ->
              /\ Log(<<"Error checking repository existence">>)
              /\ pc' = "crashed"
    /\ UNCHANGED <<driver, file, username, teamName, collaborators,
                   currentCollaborators, toAdd, toRemove, idx, repoName, inputs, prev>>

M_CallList ==
    /\ pc = "m_list_call"
    /\ Issue(Call("listCollaborators", teamName))
    /\ pc' = "m_list_wait"
    /\ UNCHANGED <<driver, file, host, username, teamName, collaborators,
                   currentCollaborators, toAdd, toRemove, idx, repoName, inputs,
                   results, out, prev>>

\* The list returns (the logins in any order) and the two differences are computed.
M_ListReturn(r, logins) ==
    /\ pc = "m_list_wait"
    /\ Return(r)
    /\ IF r.ok
         THEN /\ logins \in Perms(host.collabs)
              /\ currentCollaborators' = logins
              /\ toAdd' = CollaboratorsToAdd(mapToLowerCase(collaborators),
                                             mapToLowerCase(logins))
              /\ toRemove' = CollaboratorsToRemove(mapToLowerCase(collaborators),
                                                   mapToLowerCase(logins),
                                                   toLowerCase(username))
              /\ idx' = 1
              /\ pc' = "m_adds"
              /\ UNCHANGED out
         ELSE /\ logins = << >>
              /\ Log(<<"Error listing collaborators">>)
              /\ pc' = "crashed"
              /\ UNCHANGED <<currentCollaborators, toAdd, toRemove, idx>>
    /\ UNCHANGED <<driver, file, username, teamName, collaborators, repoName,
                   inputs, prev>>

\* Mutant: the add call is not awaited.
M_AddLoop_NoAwait ==
    /\ pc = "m_adds"
    /\ IF idx <= Len(toAdd)
         THEN /\ Issue(Call("addCollaborator", toAdd[idx]))
              /\ pc' = "m_adds"
              /\ idx' = idx + 1
         ELSE /\ pc' = "m_removes"
              /\ idx' = 1
              /\ UNCHANGED <<calls, inflight>>
    /\ UNCHANGED <<driver, file, host, username, teamName, collaborators,
                   currentCollaborators, toAdd, toRemove, repoName, inputs,
                   results, out, prev>>

\* for (const collab of collaboratorsToAdd) await manager.addUserToRepository(...)
M_AddLoop ==
    /\ pc = "m_adds"
    /\ IF idx <= Len(toAdd)
         THEN /\ Issue(Call("addCollaborator", toAdd[idx]))
              /\ pc' = "m_add_wait"
              /\ UNCHANGED idx
         ELSE /\ pc' = "m_removes"
              /\ idx' = 1
              /\ UNCHANGED <<calls, inflight>>
    /\ UNCHANGED <<driver, file, host, username, teamName, collaborators,
                   currentCollaborators, toAdd, toRemove, repoName, inputs,
                   results, out, prev>>

\* Mutant: addUserToRepository re-raises the error it logs.
M_AddReturn_Rethrow(r) ==
    /\ pc = "m_add_wait"
    /\ Return(r)
    /\ Log(IF r.ok THEN <<"User added">> ELSE <<"Error adding user">>)
    /\ idx' = idx + 1
    /\ pc' = IF r.ok THEN "m_adds" ELSE "crashed"
    /\ UNCHANGED <<driver, file, username, teamName, collaborators,
                   currentCollaborators, toAdd, toRemove, repoName, inputs, prev>>

M_AddReturn(r) ==
    /\ pc = "m_add_wait"
    /\ Return(r)
    /\ Log(IF r.ok THEN <<"User added">> ELSE <<"Error adding user">>)
    /\ idx' = idx + 1
    /\ pc' = "m_adds"
    /\ UNCHANGED <<driver, file, username, teamName, collaborators,
                   currentCollaborators, toAdd, toRemove, repoName, inputs, prev>>

\* for (const collab of collaboratorsToRemove) await manager.removeUserFromRepository(...)
M_RemoveLoop ==
    /\ pc = "m_removes"
    /\ IF idx <= Len(toRemove)
         THEN /\ Issue(Call("removeCollaborator", toRemove[idx]))
              /\ pc' = "m_remove_wait"
              /\ UNCHANGED <<idx, out>>
         ELSE /\ Log(<<"Collaborators updated.", "Program completed.">>)
              /\ pc' = "done"
              /\ UNCHANGED <<idx, calls, inflight>>
    /\ UNCHANGED <<driver, file, host, username, teamName, collaborators,
                   currentCollaborators, toAdd, toRemove, repoName, inputs,
                   results, prev>>

M_RemoveReturn(r) ==
    /\ pc = "m_remove_wait"
    /\ Return(r)
    /\ Log(IF r.ok THEN <<"User removed">> ELSE <<"Error removing user">>)
    /\ idx' = idx + 1
    /\ pc' = "m_removes"
    /\ UNCHANGED <<driver, file, username, teamName, collaborators,
                   currentCollaborators, toAdd, toRemove, repoName, inputs, prev>>

M_CallCreate ==
    /\ pc = "m_create_call"
    /\ Issue(Call("createForAuthenticatedUser", teamName))
    /\ pc' = "m_create_wait"
    /\ UNCHANGED <<driver, file, host, username, teamName, collaborators,
                   currentCollaborators, toAdd, toRemove, idx, repoName, inputs,
                   results, out, prev>>

\* Mutant: createRepository re-raises the error it logs.
M_CreateReturn_Rethrow(r) ==
    /\ pc = "m_create_wait"
    /\ Return(r)
    /\ Log(IF r.ok THEN <<"Repository created">> ELSE <<"Error creating repository">>)
    /\ idx' = 1
    /\ pc' = IF r.ok THEN "m_cadds" ELSE "crashed"
    /\ UNCHANGED <<driver, file, username, teamName, collaborators,
                   currentCollaborators, toAdd, toRemove, repoName, inputs, prev>>

M_CreateReturn(r) ==
    /\ pc = "m_create_wait"
    /\ Return(r)
    /\ Log(IF r.ok THEN <<"Repository created">> ELSE <<"Error creating repository">>)
    /\ idx' = 1
    /\ pc' = "m_cadds"
    /\ UNCHANGED <<driver, file, username, teamName, collaborators,
                   currentCollaborators, toAdd, toRemove, repoName, inputs, prev>>

\* for (const collab of collaborators) await manager.addUserToRepository(...)
M_CreateAddLoop ==
    /\ pc = "m_cadds"
    /\ IF idx <= Len(collaborators)
         THEN /\ Issue(Call("addCollaborator", collaborators[idx]))
              /\ pc' = "m_cadd_wait"
              /\ UNCHANGED <<idx, out>>
         ELSE /\ Log(<<"Repository created and collaborators added.", "Program completed.">>)
              /\ pc' = "done"
              /\ UNCHANGED <<idx, calls, inflight>>
    /\ UNCHANGED <<driver, file, host, username, teamName, collaborators,
                   currentCollaborators, toAdd, toRemove, repoName, inputs,
                   results, prev>>

M_CreateAddReturn(r) ==
    /\ pc = "m_cadd_wait"
    /\ Return(r)
    /\ Log(IF r.ok THEN <<"User added">> ELSE <<"Error adding user">>)
    /\ idx' = idx + 1
    /\ pc' = "m_cadds"
    /\ UNCHANGED <<driver, file, username, teamName, collaborators,
                   currentCollaborators, toAdd, toRemove, repoName, inputs, prev>>

\* Every add and remove call of the finished run succeeded, on the update path.
Converged ==
    /\ pc = "done"
    /\ Len(calls) >= 3 /\ calls[3].op = "listCollaborators"
    /\ \A k \in 1..Len(results) : results[k].ok

\* The operator runs the manifest driver once more, with the same manifest.
M_Rerun ==
    /\ driver = "manifest" /\ pc \in Terminal /\ prev = "none"
    /\ prev' = IF ~Converged THEN "failed"
               ELSE IF Len(calls) > 3 THEN "converged"
               ELSE "in_sync"
    /\ pc' = "start"
    /\ username' = EMPTY
    /\ teamName' = EMPTY
    /\ collaborators' = << >>
    /\ currentCollaborators' = << >>
    /\ toAdd' = << >>
    /\ toRemove' = << >>
    /\ idx' = 1
    /\ calls' = << >>
    /\ results' = << >>
    /\ inflight' = {}
    /\ out' = << >>
    /\ UNCHANGED <<driver, file, host, repoName, inputs>>

ManifestNext ==
    \/ M_CallAuth
    \/ \E r \in AllResponses : M_AuthReturn(r)
    \/ M_ReadManifest
    \/ M_CallExists
    \/ \E r \in AllResponses : M_ExistsReturn(r)
    \/ M_CallList
    \/ \E r \in AllResponses : \E logins \in BSeq(Accounts, Cardinality(Accounts)) :
          M_ListReturn(r, logins)
    \/ M_AddLoop
    \/ \E r \in AllResponses : M_AddReturn(r)
    \/ M_RemoveLoop
    \/ \E r \in AllResponses : M_RemoveReturn(r)
    \/ M_CallCreate
    \/ \E r \in AllResponses : M_CreateReturn(r)
    \/ M_CreateAddLoop
    \/ \E r \in AllResponses : M_CreateAddReturn(r)
    \/ M_Rerun

(***************************************************************************)
(* The interactive driver, src/unnamed/part_000                            *)
(***************************************************************************)
ActionInputs  == {STR_create, <<"C", "r", "e", "a", "t", "e">>, STR_edit,
                  <<"E", "D", "I", "T">>, STR_delete, EMPTY}
EditInputs    == {STR_add, <<"A", "d", "d">>, STR_remove,
                  <<"R", "E", "M", "O", "V", "E">>, STR_delete,
                  <<"D", "e", "l", "e", "t", "e">>, STR_edit, EMPTY}
ConfirmInputs == {STR_yes, <<"Y", "E", "S">>, <<"Y", "e", "s">>, <<"n", "o">>,
                  <<"y">>, <<"y", "e", "s", " ">>, EMPTY}
CollabInputs  == TypedNames \cup {EMPTY}

Typed(p, line) == [prompt |-> p, line |-> line]

\* The lines typed at the collaborator prompt so far.
CollabLines ==
    LET isCollab(e) == e.prompt = "collab"
        typed == SelectSeq(inputs, isCollab)
    IN  [k \in 1..Len(typed) |-> typed[k].line]

\* if (!collaborator) break;
EndOfEntries(collaborator) == collaborator = EMPTY

\* Mutant: any answer that starts with a "y" confirms.
Confirmed_FirstLetter(confirm) ==
    confirm # EMPTY /\ toLowerCaseChar(confirm[1]) = "y"

\* if (confirm.toLowerCase() === "yes")
Confirmed(confirm) == toLowerCase(confirm) = STR_yes

I_CallAuth ==
    /\ driver = "interactive" /\ pc = "start"
    /\ Issue(Call("getAuthenticated", EMPTY))
    /\ pc' = "i_auth_wait"
    /\ UNCHANGED <<driver, file, host, username, teamName, collaborators,
                   currentCollaborators, toAdd, toRemove, idx, repoName, inputs,
                   results, out, prev>>

I_AuthReturn(r) ==
    /\ pc = "i_auth_wait"
    /\ Return(r)
    /\ IF r.ok
         THEN /\ username' = OwnerLogin
              /\ Log(<<"Authenticated as">>)
              /\ pc' = "i_action"
         ELSE /\ Log(<<"Error fetching authenticated username">>)
              /\ pc' = "crashed"
              /\ UNCHANGED username
    /\ UNCHANGED <<driver, file, teamName, collaborators, currentCollaborators,
                   toAdd, toRemove, idx, repoName, inputs, prev>>

\* "What do you want to do? (create/edit repository): "
I_PromptAction(line) ==
    /\ pc = "i_action"
    /\ inputs' = Append(inputs, Typed("action", line))
    /\ CASE toLowerCase(line) = STR_create -> pc' = "i_create_name" /\ UNCHANGED out
         [] toLowerCase(line) = STR_edit   -> pc' = "i_edit_name" /\ UNCHANGED out
         [] OTHER -> /\ Log(<<"Invalid option. Please try again.", "Program completed.">>)
                     /\ pc' = "done"
    /\ UNCHANGED <<driver, file, host, username, teamName, collaborators,
                   currentCollaborators, toAdd, toRemove, idx, repoName, calls,
                   results, inflight, prev>>

\* "Enter the name of the new repository: ", then createRepository is called
I_PromptCreateName(line) ==
    /\ pc = "i_create_name"
    /\ inputs' = Append(inputs, Typed("name", line))
    /\ repoName' = line
    /\ Issue(Call("createForAuthenticatedUser", line))
    /\ pc' = "i_create_wait"
    /\ UNCHANGED <<driver, file, host, username, teamName, collaborators,
                   currentCollaborators, toAdd, toRemove, idx, results, out, prev>>

I_CreateReturn(r) ==
    /\ pc = "i_create_wait"
    /\ Return(r)
    /\ Log(IF r.ok THEN <<"Repository created">> ELSE <<"Error creating repository">>)
    /\ pc' = "i_add_prompt"
    /\ UNCHANGED <<driver, file, username, teamName, collaborators,
                   currentCollaborators, toAdd, toRemove, idx, repoName, inputs, prev>>

\* "Enter the name of the repository to edit: "
I_PromptEditName(line) ==
    /\ pc = "i_edit_name"
    /\ inputs' = Append(inputs, Typed("name", line))
    /\ repoName' = line
    /\ pc' = "i_edit_action"
    /\ UNCHANGED <<driver, file, host, username, teamName, collaborators,
                   currentCollaborators, toAdd, toRemove, idx, calls, results,
                   inflight, out, prev>>

\* "What do you want to do? (add/remove collaborator or delete): "
I_PromptEditAction(line) ==
    /\ pc = "i_edit_action"
    /\ inputs' = Append(inputs, Typed("editAction", line))
    /\ CASE toLowerCase(line) = STR_add    -> pc' = "i_add_prompt" /\ UNCHANGED out
         [] toLowerCase(line) = STR_remove -> pc' = "i_remove_prompt" /\ UNCHANGED out
         [] toLowerCase(line) = STR_delete -> pc' = "i_confirm" /\ UNCHANGED out
         [] OTHER -> /\ Log(<<"Invalid action. Please try again.", "Program completed.">>)
                     /\ pc' = "done"
    /\ UNCHANGED <<driver, file, host, username, teamName, collaborators,
                   currentCollaborators, toAdd, toRemove, idx, repoName, calls,
                   results, inflight, prev>>

\* "Enter a collaborator's username (or press Enter to finish): "
I_PromptAdd(line) ==
    /\ pc = "i_add_prompt"
    /\ Len(CollabLines) < MaxEntries \/ line = EMPTY
    /\ inputs' = Append(inputs, Typed("collab", line))
    /\ IF EndOfEntries(line)
         THEN /\ Log(<<"Program completed.">>)
              /\ pc' = "done"
              /\ UNCHANGED <<calls, inflight>>
         ELSE /\ Issue(Call("addCollaborator", line))
              /\ pc' = "i_add_wait"
              /\ UNCHANGED out
    /\ UNCHANGED <<driver, file, host, username, teamName, collaborators,
                   currentCollaborators, toAdd, toRemove, idx, repoName, results, prev>>

\* Mutant: a failed add ends the entry loop.
I_AddReturn_StopOnError(r) ==
    /\ pc = "i_add_wait"
    /\ Return(r)
    /\ Log(IF r.ok THEN <<"User added">> ELSE <<"Error adding user", "Program completed.">>)
    /\ pc' = IF r.ok THEN "i_add_prompt" ELSE "done"
    /\ UNCHANGED <<driver, file, username, teamName, collaborators,
                   currentCollaborators, toAdd, toRemove, idx, repoName, inputs, prev>>

I_AddReturn(r) ==
    /\ pc = "i_add_wait"
    /\ Return(r)
    /\ Log(IF r.ok THEN <<"User added">> ELSE <<"Error adding user">>)
    /\ pc' = "i_add_prompt"
    /\ UNCHANGED <<driver, file, username, teamName, collaborators,
                   currentCollaborators, toAdd, toRemove, idx, repoName, inputs, prev>>

\* "Enter the collaborator's username to remove (or press Enter to finish): "
I_PromptRemove(line) ==
    /\ pc = "i_remove_prompt"
    /\ Len(CollabLines) < MaxEntries \/ line = EMPTY
    /\ inputs' = Append(inputs, Typed("collab", line))
    /\ IF EndOfEntries(line)
         THEN /\ Log(<<"Program completed.">>)
              /\ pc' = "done"
              /\ UNCHANGED <<calls, inflight>>
         ELSE /\ Issue(Call("removeCollaborator", line))
              /\ pc' = "i_remove_wait"
              /\ UNCHANGED out
    /\ UNCHANGED <<driver, file, host, username, teamName, collaborators,
                   currentCollaborators, toAdd, toRemove, idx, repoName, results, prev>>

I_RemoveReturn(r) ==
    /\ pc = "i_remove_wait"
    /\ Return(r)
    /\ Log(IF r.ok THEN <<"User removed">> ELSE <<"Error removing user">>)
    /\ pc' = "i_remove_prompt"
    /\ UNCHANGED <<driver, file, username, teamName, collaborators,
                   currentCollaborators, toAdd, toRemove, idx, repoName, inputs, prev>>

\* "Are you sure you want to delete this repository? (yes/no): "
I_PromptConfirm(line) ==
    /\ pc = "i_confirm"
    /\ inputs' = Append(inputs, Typed("confirm", line))
    /\ IF Confirmed(line)
         THEN /\ Issue(Call("delete", repoName))
              /\ pc' = "i_delete_wait"
              /\ UNCHANGED out
         ELSE /\ Log(<<"Repository deletion canceled.", "Program completed.">>)
              /\ pc' = "done"
              /\ UNCHANGED <<calls, inflight>>
    /\ UNCHANGED <<driver, file, host, username, teamName, collaborators,
                   currentCollaborators, toAdd, toRemove, idx, repoName, results, prev>>

I_DeleteReturn(r) ==
    /\ pc = "i_delete_wait"
    /\ Return(r)
    /\ Log(IF r.ok THEN <<"Repository deleted", "Program completed.">>
                   ELSE <<"Error deleting repository", "Program completed.">>)
    /\ pc' = "done"
    /\ UNCHANGED <<driver, file, username, teamName, collaborators,
                   currentCollaborators, toAdd, toRemove, idx, repoName, inputs, prev>>

InteractiveNext ==
    \/ I_CallAuth
    \/ \E r \in AllResponses : I_AuthReturn(r)
    \/ \E line \in ActionInputs : I_PromptAction(line)
    \/ \E line \in {RepoName} : I_PromptCreateName(line)
    \/ \E r \in AllResponses : I_CreateReturn(r)
    \/ \E line \in {RepoName} : I_PromptEditName(line)
    \/ \E line \in EditInputs : I_PromptEditAction(line)
    \/ \E line \in CollabInputs : I_PromptAdd(line)
    \/ \E r \in AllResponses : I_AddReturn(r)
    \/ \E line \in CollabInputs : I_PromptRemove(line)
    \/ \E r \in AllResponses : I_RemoveReturn(r)
    \/ \E line \in ConfirmInputs : I_PromptConfirm(line)
    \/ \E r \in AllResponses : I_DeleteReturn(r)

Next == ManifestNext \/ InteractiveNext

Spec == Init /\ [][Next]_vars

\* Every step the program can take is eventually taken: a call that was issued returns,
\* and a prompt is answered.
FairSpec == Spec /\ WF_vars(Next)


(***************************************************************************)
(* Shared notions of the properties                                        *)
(***************************************************************************)
LowerSet(arr) == {toLowerCase(x) : x \in ToSet(arr)}

OpsOf(ops) == {k \in 1..Len(calls) : calls[k].op \in ops}

Mutations == {"createForAuthenticatedUser", "delete", "addCollaborator", "removeCollaborator"}

\* The manifest driver is past a successful list call: the differences are computed.
Reconciled ==
    /\ driver = "manifest"
    /\ Len(results) >= 3
    /\ calls[3].op = "listCollaborators"
    /\ results[3].ok

Completed == pc = "done" /\ out # << >> /\ Last(out) = "Program completed."

(***************************************************************************)
(* C1: once the manifest driver has computed the differences, as sets of   *)
(* lowercase names toAdd = { d in D | d not in C } and toRemove = { c in C *)
(* | c not in D and c # O }; they are disjoint, toAdd misses C, toRemove   *)
(* misses D and the owner; an empty D gives toRemove = C \ {O}, an empty C *)
(* gives toAdd = D.                                                        *)
(***************************************************************************)
C1_Reconcile ==
    Reconciled =>
      LET D == LowerSet(collaborators)
          C == LowerSet(currentCollaborators)
          O == toLowerCase(username)
          A == ToSet(toAdd)
          R == ToSet(toRemove)
      IN  /\ A = {d \in D : d \notin C}
          /\ R = {c \in C : c \notin D /\ c # O}
          /\ A \cap R = {}
          /\ A \cap C = {}
          /\ R \cap D = {}
          /\ O \notin R
          /\ D = {} => (A = {} /\ R = C \ {O})
          /\ C = {} => (A = D /\ R = {})

\* Both differences are non-empty, the owner is listed by the host and absent from the
\* manifest, and a manifest name is spelled with capitals.
C1_Witness ==
    /\ Reconciled
    /\ toAdd # << >> /\ toRemove # << >>
    /\ toLowerCase(username) \in LowerSet(currentCollaborators)
    /\ toLowerCase(username) \notin LowerSet(collaborators)
    /\ \E k \in 1..Len(collaborators) : toLowerCase(collaborators[k]) # collaborators[k]

(***************************************************************************)
(* C2: in neither driver is removeCollaborator called with a name equal to *)
(* the authenticated owner's, compared in lowercase.                       *)
(***************************************************************************)
C2_OwnerNeverRemoved ==
    \A k \in OpsOf({"removeCollaborator"}) :
        toLowerCase(calls[k].arg) # toLowerCase(username)

(***************************************************************************)
(* C3                                                                      *)
(***************************************************************************)
\* The manifest parses, and its teamName is missing or empty or its collaborators are
\* not a list.
Malformed ==
    /\ driver = "manifest"
    /\ file.readable
    /\ (~file.hasTeamName \/ file.teamName = EMPTY \/ ~file.collabIsList)

\* C3 as stated: when the manifest driver aborts on a malformed manifest, no host
\* client method at all has been invoked.
C3_NoHostCallAtAll ==
    (Malformed /\ pc = "returned") => calls = << >>

\* C3 as amended: with a malformed manifest the only host call ever issued is the one
\* that gets the authenticated identity, it has returned when the driver aborts, and
\* the abort is reported.
C3_OnlyAuthBeforeAbort ==
    Malformed =>
      /\ Len(calls) <= 1
      /\ \A k \in 1..Len(calls) : calls[k].op = "getAuthenticated"
      /\ pc \in {"start", "m_auth_wait", "m_prompt", "returned", "crashed"}
      /\ pc = "returned" => (inflight = {} /\ Last(out) = "Invalid JSON format")

\* The driver has aborted on a manifest whose collaborators are not a list.
C3_Witness ==
    /\ Malformed /\ pc = "returned"
    /\ ~file.collabIsList /\ file.teamName # EMPTY

(***************************************************************************)
(* C4                                                                      *)
(***************************************************************************)
ErrorMessage(op) ==
    CASE op = "getAuthenticated"           -> "Error fetching authenticated username"
      [] op = "get"                        -> "Error checking repository existence"
      [] op = "createForAuthenticatedUser" -> "Error creating repository"
      [] op = "delete"                     -> "Error deleting repository"
      [] op = "addCollaborator"            -> "Error adding user"
      [] op = "removeCollaborator"         -> "Error removing user"
      [] op = "listCollaborators"          -> "Error listing collaborators"

AllOps == {"getAuthenticated", "get", "createForAuthenticatedUser", "delete",
           "addCollaborator", "removeCollaborator", "listCollaborators"}

\* The host answered call k with a failure (a 404 on the existence check is an answer).
Failed(k) ==
    /\ ~results[k].ok
    /\ ~(calls[k].op = "get" /\ results[k].status = 404)

\* Every failure the host has answered is on the console, once.
FailuresLogged ==
    \A op \in AllOps :
        Cardinality({k \in 1..Len(results) : calls[k].op = op /\ Failed(k)})
          = Cardinality({k \in 1..Len(out) : out[k] = ErrorMessage(op)})

CallsOf(op, names) == [k \in 1..Len(names) |-> Call(op, names[k])]

NonEmptyLines ==
    LET typed(line) == line # EMPTY
    IN  SelectSeq(CollabLines, typed)

\* The host calls of a run that reaches its end, whatever the calls answered.
FullRun ==
    IF driver = "manifest"
      THEN <<Call("getAuthenticated", EMPTY), Call("get", teamName)>>
           \o (IF calls[3].op = "listCollaborators"
                 THEN <<Call("listCollaborators", teamName)>>
                      \o CallsOf("addCollaborator", toAdd)
                      \o CallsOf("removeCollaborator", toRemove)
                 ELSE <<Call("createForAuthenticatedUser", teamName)>>
                      \o CallsOf("addCollaborator", collaborators))
      ELSE <<Call("getAuthenticated", EMPTY)>>
           \o (IF toLowerCase(inputs[1].line) = STR_create
                 THEN <<Call("createForAuthenticatedUser", repoName)>>
                      \o CallsOf("addCollaborator", NonEmptyLines)
               ELSE IF toLowerCase(inputs[1].line) # STR_edit \/ Len(inputs) < 3
                 THEN << >>
               ELSE IF toLowerCase(inputs[3].line) = STR_add
                 THEN CallsOf("addCollaborator", NonEmptyLines)
               ELSE IF toLowerCase(inputs[3].line) = STR_remove
                 THEN CallsOf("removeCollaborator", NonEmptyLines)
               ELSE IF toLowerCase(inputs[3].line) = STR_delete
                       /\ toLowerCase(inputs[4].line) = STR_yes
                 THEN <<Call("delete", repoName)>>
               ELSE << >>)

\* A run ends by an unhandled error only on a failure of one of these calls.
Crashes(ops) ==
    pc = "crashed" =>
      /\ Len(results) = Len(calls)
      /\ Last(calls).op \in ops
      /\ ~Last(results).ok

\* The add and remove calls that follow the list call in a failure-free run (the host's
\* collaborators have not changed since a list call that failed).
FollowersOfList ==
    LET D == LowerSet(collaborators)
        C == IF results[3].ok THEN LowerSet(currentCollaborators)
                              ELSE {toLowerCase(c) : c \in host.collabs}
        O == toLowerCase(username)
    IN  {Call("addCollaborator", d) : d \in D \ C}
        \cup {Call("removeCollaborator", c) : c \in (C \ D) \ {O}}

PastStartup ==
    /\ pc \notin Terminal
    /\ IF driver = "manifest"
         THEN Len(results) >= 2 /\ repositoryExists(results[2]) # "throw"
         ELSE Len(results) >= 1 /\ results[1].ok

WasPastStartup ==
    IF driver = "manifest"
      THEN Len(results) >= 2 /\ repositoryExists(results[2]) # "throw"
      ELSE Len(results) >= 1 /\ results[1].ok

ListFailed ==
    /\ pc = "crashed"
    /\ Last(calls).op = "listCollaborators"
    /\ Last(out) = "Error listing collaborators"

C6_DeleteOnlyConfirmed ==
    /\ Cardinality(OpsOf({"delete"})) <= 1
    /\ OpsOf({"delete"}) # {} =>
         /\ driver = "interactive"
         /\ Len(inputs) = 4
         /\ inputs[1].prompt = "action" /\ toLowerCase(inputs[1].line) = STR_edit
         /\ inputs[3].prompt = "editAction" /\ toLowerCase(inputs[3].line) = STR_delete
         /\ inputs[4].prompt = "confirm"
         /\ inputs[4].line \in {<<y, e, s>> : y \in {"y", "Y"}, e \in {"e", "E"}, s \in {"s", "S"}}
    /\ \A k \in 1..Len(inputs) :
         (inputs[k].prompt = "confirm"
            /\ inputs[k].line \notin {<<y, e, s>> : y \in {"y", "Y"}, e \in {"e", "E"}, s \in {"s", "S"}})
         => (OpsOf(Mutations) = {} /\ pc = "done")

\* The repository was deleted after the confirmation "YES".
C6_Witness ==
    /\ pc = "done"
    /\ OpsOf({"delete"}) # {}
    /\ Last(inputs).line = <<"Y", "E", "S">>
    /\ ~host.exists

(***************************************************************************)
(* C7: in the manifest driver the existence check gives false exactly on a *)
(* 404 answer, and then the create path is taken; on success the update    *)
(* path is taken; any other failure ends the run with the error, with no   *)
(* further call and no second existence check.                             *)
(***************************************************************************)
C7_ExistenceCheck ==
    (driver = "manifest" /\ Len(results) >= 2) =>
      LET r == results[2]
      IN  /\ calls[2].op = "get"
          /\ Cardinality(OpsOf({"get"})) = 1
          /\ r.ok =>
               (pc = "m_list_call" \/ (Len(calls) >= 3 /\ calls[3].op = "listCollaborators"))
          /\ (~r.ok /\ r.status = 404) =>
               (pc = "m_create_call"
                  \/ (Len(calls) >= 3 /\ calls[3].op = "createForAuthenticatedUser"))
          /\ (~r.ok /\ r.status # 404) =>
               /\ pc = "crashed"
               /\ Len(calls) = 2
               /\ Last(out) = "Error checking repository existence"

\* The existence check failed with an error that carries no status.
C7_Witness ==
    /\ driver = "manifest" /\ pc = "crashed"
    /\ Len(results) = 2 /\ ~results[2].ok /\ results[2].status = 0

(***************************************************************************)
(* C8: at most one host call is outstanding, and it is the last one issued *)
(* (every earlier call has returned); in the manifest driver adds and      *)
(* removes come after the existence check and the list (or create) call,   *)
(* and on the update path every add is issued before any remove.           *)
(***************************************************************************)
C8_Sequential ==
    /\ Cardinality(inflight) <= 1
    /\ inflight \subseteq {Len(calls)}
    /\ Len(results) = Len(calls) - Cardinality(inflight)
    /\ driver = "manifest" =>
         /\ \A k \in OpsOf({"addCollaborator", "removeCollaborator"}) :
              /\ k > 3
              /\ calls[2].op = "get"
              /\ calls[3].op \in {"listCollaborators", "createForAuthenticatedUser"}
         /\ \A k \in OpsOf({"removeCollaborator"}) : calls[3].op = "listCollaborators"
         /\ \A j \in OpsOf({"addCollaborator"}) :
              \A k \in OpsOf({"removeCollaborator"}) : j < k

\* A remove call is outstanding on the update path, after an add call.
C8_Witness ==
    /\ driver = "manifest"
    /\ inflight # {}
    /\ Last(calls).op = "removeCollaborator"
    /\ OpsOf({"addCollaborator"}) # {}

(***************************************************************************)
(* C9: in the collaborator-entry loops of the interactive driver the add   *)
(* (or remove) calls issued are exactly the non-empty lines typed, in      *)
(* order, each returned before the next prompt, whatever the calls         *)
(* answered; an empty line is the last line typed, issues no call and ends *)
(* the run, and nothing else ends a loop.                                  *)
(***************************************************************************)
InLoop ==
    /\ driver = "interactive"
    /\ Len(inputs) >= 1
    /\ \/ toLowerCase(inputs[1].line) = STR_create /\ Len(results) >= 2
       \/ /\ Len(inputs) >= 3
          /\ toLowerCase(inputs[1].line) = STR_edit
          /\ toLowerCase(inputs[3].line) \in {STR_add, STR_remove}

LoopOp ==
    IF toLowerCase(inputs[1].line) = STR_edit /\ toLowerCase(inputs[3].line) = STR_remove
      THEN "removeCollaborator"
      ELSE "addCollaborator"

LoopCalls ==
    LET inLoop(c) == c.op \in {"addCollaborator", "removeCollaborator"}
    IN  SelectSeq(calls, inLoop)

C9_EntryLoop ==
    /\ driver = "interactive" /\ ~InLoop => (LoopCalls = << >> /\ CollabLines = << >>)
    /\ InLoop =>
         /\ LoopCalls = CallsOf(LoopOp, NonEmptyLines)
         /\ pc \in {"i_add_prompt", "i_remove_prompt"} =>
              (inflight = {} /\ Len(results) = Len(calls))
         /\ \A k \in 1..Len(CollabLines) :
              CollabLines[k] = EMPTY => (k = Len(CollabLines) /\ pc = "done")
         /\ pc \in Terminal =>
              (Completed /\ CollabLines # << >> /\ Last(CollabLines) = EMPTY)
         /\ pc \notin Terminal =>
              pc \in {"i_add_prompt", "i_remove_prompt", "i_add_wait", "i_remove_wait"}

\* Two names were typed and then an empty line; the first call failed.
C9_Witness ==
    /\ InLoop /\ pc = "done"
    /\ Len(NonEmptyLines) >= 2
    /\ \E k \in 1..Len(calls) : calls[k] = LoopCalls[1] /\ ~results[k].ok

(***************************************************************************)
(* C10: when a run of the manifest driver on an existing repository ends   *)
(* with every call answered with success, the host's collaborators, in     *)
(* lowercase, are the desired set plus the owner if the host listed the    *)
(* owner; and the run that follows it with the same manifest computes      *)
(* empty differences and issues no add, remove or create call.             *)
(***************************************************************************)
C10_Convergence ==
    /\ Converged =>
         {toLowerCase(c) : c \in host.collabs}
           = LowerSet(collaborators)
               \cup ({toLowerCase(username)} \cap LowerSet(currentCollaborators))
    /\ prev \in {"converged", "in_sync"} =>
         /\ toAdd = << >> /\ toRemove = << >>
         /\ OpsOf(Mutations) = {}
         /\ pc # "m_create_call"

\* The second run has ended, after a first run that changed the collaborators, with a
\* manifest and a host that spell a name differently.
C10_Witness ==
    /\ prev = "converged" /\ pc = "done"
    /\ \E k \in 1..Len(collaborators) :
         /\ collaborators[k] \notin ToSet(currentCollaborators)
         /\ toLowerCase(collaborators[k]) \in LowerSet(currentCollaborators)

====
